---- MODULE Spec2Model ----
(***************************************************************************)
(* Model of the PDF outline extractor: src/src/nlp.py (linguistic helper   *)
(* predicates and the cached engine loader) and src/src/process_pdfs.py    *)
(* (repetition cleaner, title detector, font-to-level classifier, heading  *)
(* candidate engine and the batch driver).                                 *)
(*                                                                         *)
(* A text is a sequence of one-character strings.  A font size is an IEEE  *)
(* double, written as a two-limb integer <<hi, lo>> counting units of      *)
(* 2^-55 (value = (hi * 2^30 + lo) * 2^-55), so that the doubles 20.04,    *)
(* 15.96 and 0.1 of the source are exact integers.                         *)
(***************************************************************************)
EXTENDS Integers, Sequences, FiniteSets, TLC

VARIABLES
    text, pc, cleaned, recleaned, titleCase,      \* string helpers under test
    size, level,                                  \* heading_level under test
    blocks, lang_code, installed, title, outline, \* one document's classification
    cache, lang_arg, loaded, engine, served,      \* get_nlp and its lru_cache
    pending, doc, stage, done, files, failed      \* process_pdfs batch run

textVars  == <<text, cleaned, recleaned, titleCase>>
levelVars == <<size, level>>
docVars   == <<blocks, lang_code, title, outline>>
cacheVars == <<cache, lang_arg, loaded, engine, served>>
batchVars == <<pending, doc, stage, done, files, failed>>
vars == <<pc, textVars, levelVars, docVars, installed, cacheVars, batchVars>>

(***************************************************************************)
(* Characters.  Python's str predicates, on the characters the model uses. *)
(***************************************************************************)
Upper    == {"A", "B", "I", "M", "H", "E", "R", "P", "D"}
Lower    == {"a", "b", "m", "e", "r", "q", "u", "s", "t", "o", "p", "l", "f"}
Caseless == {"k"}     \* stands for a letter of a caseless script (kana, kanji)
Digits   == {"1"}
Space    == {" ", "\t"}

isalpha(c) == c \in Upper \cup Lower \cup Caseless
isupper(c) == c \in Upper
islower(c) == c \in Lower
isspace(c) == c \in Space
\* regex \w: letters, digits and the underscore
isword(c)  == isalpha(c) \/ c \in Digits \/ c = "_"

\* str.isalpha(): non-empty and every character alphabetic
str_isalpha(w) == Len(w) > 0 /\ \A i \in 1..Len(w) : isalpha(w[i])
\* str.isupper() / str.islower(): at least one cased character, and no cased
\* character of the other case
str_isupper(w) ==
    /\ \E i \in 1..Len(w) : isupper(w[i])
    /\ \A i \in 1..Len(w) : ~islower(w[i])
str_islower(w) ==
    /\ \E i \in 1..Len(w) : islower(w[i])
    /\ \A i \in 1..Len(w) : ~isupper(w[i])

\* str.strip()
RECURSIVE lstrip(_)
lstrip(s) == IF s # <<>> /\ isspace(Head(s)) THEN lstrip(Tail(s)) ELSE s
RECURSIVE rstrip(_)
rstrip(s) ==
    IF s # <<>> /\ isspace(s[Len(s)]) THEN rstrip(SubSeq(s, 1, Len(s) - 1)) ELSE s
strip(s) == rstrip(lstrip(s))

\* length of the leading run of non-whitespace characters
RECURSIVE TokenLen(_)
TokenLen(s) ==
    IF s = <<>> \/ isspace(Head(s)) THEN 0 ELSE 1 + TokenLen(Tail(s))

\* str.split(): the maximal runs of non-whitespace characters, in order
RECURSIVE split(_)
split(s) ==
    IF s = <<>> THEN <<>>
    ELSE IF isspace(Head(s)) THEN split(Tail(s))
    ELSE LET n == TokenLen(s)
         IN  <<SubSeq(s, 1, n)>> \o split(SubSeq(s, n + 1, Len(s)))

\* ' '.join(words)
RECURSIVE join(_)
join(words) ==
    IF words = <<>> THEN <<>>
    ELSE IF Len(words) = 1 THEN words[1]
    ELSE words[1] \o <<" ">> \o join(Tail(words))

(***************************************************************************)
(* nlp.py: the language-aware helper predicates.                           *)
(***************************************************************************)
is_all_caps(t, lang) ==
    IF lang = "ja" THEN FALSE
    ELSE LET letters == SelectSeq(t, isalpha)
         IN  letters # <<>> /\ \A i \in 1..Len(letters) : isupper(letters[i])

is_title_case(t, lang) ==
    IF lang = "ja" THEN FALSE
    ELSE LET words == SelectSeq(split(t), str_isalpha)
         IN  IF words = <<>> THEN FALSE
             ELSE \A i \in 1..Len(words) :
                     /\ isupper(words[i][1])
                     /\ str_islower(Tail(words[i]))

\* '•', '●', '-', '*', '▪', '‣', '–', '—'
bullets == {"U+2022", "U+25CF", "-", "*", "U+25AA", "U+2023", "U+2013", "U+2014"}

starts_with_bullet(t) == t # <<>> /\ t[1] \in bullets

is_short(t, max_words, max_chars, lang) ==
    IF lang = "ja" THEN Len(t) <= max_chars
    ELSE Len(t) <= max_chars /\ Len(split(t)) <= max_words

\* the ratio computed whatever the script
uppercase_ratio_any_script(t, lang) ==
    LET letters == SelectSeq(t, isalpha)
    IN  IF letters = <<>> THEN <<0, 1>>
        ELSE <<Len(SelectSeq(letters, isupper)), Len(letters)>>

\* the ratio as <<uppercase letters, letters>>; 0 is <<0, 1>>
uppercase_ratio(t, lang) ==
    IF lang = "ja" THEN <<0, 1>>
    ELSE LET letters == SelectSeq(t, isalpha)
         IN  IF letters = <<>> THEN <<0, 1>>
             ELSE <<Len(SelectSeq(letters, isupper)), Len(letters)>>

\* ratio > 0.5
RatioAboveHalf(r) == 2 * r[1] > r[2]

\* the character class [.!?。！？] of is_full_sentence
terminators == {".", "!", "?", "U+3002", "U+FF01", "U+FF1F"}

\* is_full_sentence after the engine has segmented the text: sents is doc.sents,
\* each sentence a record of its non-space token count and its text
is_full_sentence(sents) ==
    \E i \in 1..Len(sents) :
        /\ sents[i].tokens > 2
        /\ LET st == strip(sents[i].text)
           IN  st # <<>> /\ st[Len(st)] \in terminators

(***************************************************************************)
(* process_pdfs.py: clean_repetitions.                                     *)
(***************************************************************************)
\* length of the leading run of characters equal to c
RECURSIVE RunLen(_, _)
RunLen(s, c) == IF s = <<>> \/ Head(s) # c THEN 0 ELSE 1 + RunLen(Tail(s), c)

\* the substitution with a lazy quantifier, (\w)\1{2,}?: each match takes three
RECURSIVE CollapseWordRunsLazy(_)
CollapseWordRunsLazy(s) ==
    IF s = <<>> THEN <<>>
    ELSE IF isword(Head(s)) /\ RunLen(s, Head(s)) >= 3
         THEN <<Head(s)>> \o CollapseWordRunsLazy(SubSeq(s, 4, Len(s)))
         ELSE <<Head(s)>> \o CollapseWordRunsLazy(Tail(s))

\* the substitution with the quantifier {3,}: runs of four or more only
RECURSIVE CollapseWordRunsFour(_)
CollapseWordRunsFour(s) ==
    IF s = <<>> THEN <<>>
    ELSE LET n == RunLen(s, Head(s))
         IN  IF isword(Head(s)) /\ n >= 4
             THEN <<Head(s)>> \o CollapseWordRunsFour(SubSeq(s, n + 1, Len(s)))
             ELSE <<Head(s)>> \o CollapseWordRunsFour(Tail(s))

\* re.sub(r'(\w)\1{2,}', r'\1', text): leftmost, greedy, non-overlapping
RECURSIVE CollapseWordRuns(_)
CollapseWordRuns(s) ==
    IF s = <<>> THEN <<>>
    ELSE LET n == RunLen(s, Head(s))
         IN  IF isword(Head(s)) /\ n >= 3
             THEN <<Head(s)>> \o CollapseWordRuns(SubSeq(s, n + 1, Len(s)))
             ELSE <<Head(s)>> \o CollapseWordRuns(Tail(s))

\* length of the leading run of whitespace characters
RECURSIVE SpaceLen(_)
SpaceLen(s) == IF s = <<>> \/ ~isspace(Head(s)) THEN 0 ELSE 1 + SpaceLen(Tail(s))

\* re.sub(r'\s{2,}', ' ', text)
RECURSIVE CollapseSpaces(_)
CollapseSpaces(s) ==
    IF s = <<>> THEN <<>>
    ELSE LET n == SpaceLen(s)
         IN  IF n >= 2
             THEN <<" ">> \o CollapseSpaces(SubSeq(s, n + 1, Len(s)))
             ELSE <<Head(s)>> \o CollapseSpaces(Tail(s))

\* the loop over words: keep the first occurrence of each word
RECURSIVE FirstOccurrences(_, _)
FirstOccurrences(words, seen) ==
    IF words = <<>> THEN <<>>
    ELSE IF Head(words) \in seen THEN FirstOccurrences(Tail(words), seen)
    ELSE <<Head(words)>> \o FirstOccurrences(Tail(words), seen \cup {Head(words)})

clean_repetitions(t) ==
    join(FirstOccurrences(split(CollapseSpaces(CollapseWordRuns(t))), {}))

(***************************************************************************)
(* The string helpers applied to bounded inputs.                           *)
(***************************************************************************)
MaxTextLen == 5

Alphabet == {"A", "a", "b", " ", "-"}

BoundedTexts == UNION {[1..n -> Alphabet] : n \in 0..MaxTextLen}

IAmHere    == <<"I", " ", "A", "m", " ", "H", "e", "r", "e">>
IAMHERE    == <<"I", " ", "A", "M", " ", "H", "E", "R", "E">>
Reeeequest == <<"R", "e", "e", "e", "e", "q", "u", "e", "s", "t">>
Request    == <<"R", "e", "q", "u", "e", "s", "t">>
Proposal   == <<"P", "r", "o", "p", "o", "s", "a", "l">>
Draft      == <<"D", "r", "a", "f", "t">>

ExampleTexts ==
    { IAmHere, IAMHERE, Reeeequest,
      Proposal \o <<" ">> \o Draft \o <<" ">> \o Proposal,
      <<"a", "a", "a", " ", " ", "a">>,
      <<"1", "1", "1", "_", "_", "_", "\t", "\t", "A">> }

TextInputs == BoundedTexts \cup ExampleTexts

CasedLangs == {"en", "es"}
Langs      == CasedLangs \cup {"ja"}

TextInit ==
    /\ text \in TextInputs
    /\ cleaned = <<>>
    /\ recleaned = <<>>
    /\ titleCase = FALSE

TextIdle ==
    /\ text = <<>>
    /\ cleaned = <<>>
    /\ recleaned = <<>>
    /\ titleCase = FALSE

\* title = clean_repetitions(title)
CleanOnce ==
    /\ pc = "start"
    /\ cleaned' = clean_repetitions(text)
    /\ pc' = "cleaned"
    /\ UNCHANGED <<text, recleaned, titleCase, levelVars, docVars, installed,
                   cacheVars, batchVars>>

\* clean_repetitions applied to its own output
CleanAgain ==
    /\ pc = "cleaned"
    /\ recleaned' = clean_repetitions(cleaned)
    /\ pc' = "recleaned"
    /\ UNCHANGED <<text, cleaned, titleCase, levelVars, docVars, installed,
                   cacheVars, batchVars>>

\* is_title_case(text, lang_code=lang_code)
TitleCase ==
    /\ pc = "start"
    /\ titleCase' = is_title_case(text, lang_code)
    /\ pc' = "cased"
    /\ UNCHANGED <<text, cleaned, recleaned, levelVars, docVars, installed,
                   cacheVars, batchVars>>

(***************************************************************************)
(* Doubles.  <<hi, lo>> is (hi * Base + lo) units of 2^-55, 0 <= lo < Base.*)
(* A double in [8, 16) is a multiple of 64 units and one in [16, 32) of    *)
(* 128 units.  For sizes in [8, 32) the differences the source takes are   *)
(* multiples of 64 units below 32, and every such multiple near 0.1 or 0.5 *)
(* is itself a double, so the comparisons decide as exact arithmetic does. *)
(***************************************************************************)
Base == 2^30

DLess(a, b) == a[1] < b[1] \/ (a[1] = b[1] /\ a[2] < b[2])
DLeq(a, b)  == a = b \/ DLess(a, b)

DAdd(a, b) ==
    IF a[2] + b[2] >= Base THEN <<a[1] + b[1] + 1, a[2] + b[2] - Base>>
    ELSE <<a[1] + b[1], a[2] + b[2]>>

\* a - b for b <= a
DSub(a, b) ==
    IF a[2] >= b[2] THEN <<a[1] - b[1], a[2] - b[2]>>
    ELSE <<a[1] - b[1] - 1, (Base - b[2]) + a[2]>>

\* abs(a - b)
AbsDiff(a, b) == IF DLess(a, b) THEN DSub(b, a) ELSE DSub(a, b)

\* the literals of the source as doubles
D20_04 == <<672430817, 300647680>>   \* 20.04
D15_96 == <<535528734, 773094144>>   \* 15.96
D12_0  == <<402653184, 0>>           \* 12.0
D0_1   == <<3355443, 214748365>>     \* 0.1
D0_5   == <<16777216, 0>>            \* 0.5

(***************************************************************************)
(* process_pdfs.py: the font-to-level classifier.                          *)
(***************************************************************************)
compute_font_stats == [H1 |-> D20_04, H2 |-> D15_96, H3 |-> D12_0]

\* the comparison written without abs(): size - font_stats[...] < 0.1
heading_level_no_abs(block, font_stats) ==
    IF DLess(block.size, DAdd(font_stats.H1, D0_1)) THEN "H1"
    ELSE IF DLess(block.size, DAdd(font_stats.H2, D0_1)) THEN "H2"
    ELSE IF DLess(block.size, DAdd(font_stats.H3, D0_1)) THEN "H3"
    ELSE "None"

heading_level(block, font_stats) ==
    IF DLess(AbsDiff(block.size, font_stats.H1), D0_1) THEN "H1"
    ELSE IF DLess(AbsDiff(block.size, font_stats.H2), D0_1) THEN "H2"
    ELSE IF DLess(AbsDiff(block.size, font_stats.H3), D0_1) THEN "H3"
    ELSE "None"

(***************************************************************************)
(* heading_level applied to bounded inputs: the doubles within MaxUlps     *)
(* steps of each table size, of each end of its tolerance band, and of the *)
(* sizes 20.09, 20.2 and 24.0.                                             *)
(***************************************************************************)
MaxUlps == 3

\* spacing of the doubles around d
Ulp(d) == IF d[1] >= 2^29 THEN 128 ELSE 64

\* the largest double that is at most d
GridDown(d) == <<d[1], d[2] - (d[2] % Ulp(d))>>

\* d moved by n units, -Base < n < Base
Shift(d, n) ==
    IF d[2] + n < 0 THEN <<d[1] - 1, d[2] + n + Base>>
    ELSE IF d[2] + n >= Base THEN <<d[1] + 1, d[2] + n - Base>>
    ELSE <<d[1], d[2] + n>>

D20_09 == <<674108538, 944892800>>   \* 20.09
D20_2  == <<677799526, 429496704>>   \* 20.2
D24_0  == <<805306368, 0>>           \* 24.0

TableSizes == {D20_04, D15_96, D12_0}

SizeAnchors ==
    TableSizes
    \cup {GridDown(DAdd(t, D0_1)) : t \in TableSizes}
    \cup {GridDown(DSub(t, D0_1)) : t \in TableSizes}
    \cup {D20_09, D20_2, D24_0}

SizeInputs == {Shift(a, k * Ulp(a)) : a \in SizeAnchors, k \in (0 - MaxUlps)..MaxUlps}

LevelInit ==
    /\ size \in SizeInputs
    /\ level = "unset"

LevelIdle ==
    /\ size = D12_0
    /\ level = "unset"

\* level = heading_level(block, font_stats)
HeadingLevel ==
    /\ pc = "start"
    /\ level' = heading_level([size |-> size], compute_font_stats)
    /\ pc' = "levelled"
    /\ UNCHANGED <<size, textVars, docVars, installed, cacheVars, batchVars>>

(***************************************************************************)
(* nlp.py: get_nlp.  spacy.load(model) succeeds exactly for the models in  *)
(* inst, the models installed on the machine.                              *)
(***************************************************************************)
LANG_MODELS ==
    [en |-> "en_core_web_sm", es |-> "es_core_news_sm", ja |-> "ja_core_news_sm"]

Models == {LANG_MODELS[k] : k \in DOMAIN LANG_MODELS}

\* LANG_MODELS.get(lang_code, LANG_MODELS['en'])
ResolveModel(lang) ==
    IF lang \in DOMAIN LANG_MODELS THEN LANG_MODELS[lang] ELSE LANG_MODELS["en"]

\* the body of get_nlp: the engine it returns or the exception it lets out, and
\* the models it passed to spacy.load
get_nlp_body(lang, inst) ==
    LET model == ResolveModel(lang)
    IN  IF model \in inst
        THEN [raised |-> FALSE, engine |-> model, loads |-> <<model>>]
        ELSE IF LANG_MODELS["en"] \in inst
        THEN [raised |-> FALSE, engine |-> LANG_MODELS["en"],
              loads |-> <<model, LANG_MODELS["en"]>>]
        ELSE [raised |-> TRUE, engine |-> "raised",
              loads |-> <<model, LANG_MODELS["en"]>>]

(***************************************************************************)
(* process_pdfs.py: detect_title.  A block is a record of the span fields  *)
(* the classification reads: text, size, page, y (origin[1]) and sents,    *)
(* the sentences the engine finds in the text.                             *)
(***************************************************************************)
Front(s) == SubSeq(s, 1, Len(s) - 1)
Last(s)  == s[Len(s)]

RECURSIVE MaxSize(_)
MaxSize(bs) ==
    IF Len(bs) = 1 THEN bs[1].size
    ELSE LET m == MaxSize(Tail(bs))
         IN  IF DLess(m, bs[1].size) THEN bs[1].size ELSE m

\* a sort step that is not stable: b goes before the blocks of equal y
RECURSIVE InsertByYBeforeTies(_, _)
InsertByYBeforeTies(bs, b) ==
    IF bs = <<>> THEN <<b>>
    ELSE IF Last(bs).y < b.y THEN Append(bs, b)
    ELSE Append(InsertByYBeforeTies(Front(bs), b), Last(bs))

\* one step of a stable sort by y: b goes after every block whose y is not larger
RECURSIVE InsertByY(_, _)
InsertByY(bs, b) ==
    IF bs = <<>> THEN <<b>>
    ELSE IF Last(bs).y <= b.y THEN Append(bs, b)
    ELSE Append(InsertByY(Front(bs), b), Last(bs))

\* sorted(title_blocks, key=lambda b: b["origin"][1]); sorted() is stable
RECURSIVE sorted_by_y(_)
sorted_by_y(bs) ==
    IF bs = <<>> THEN <<>> ELSE InsertByY(sorted_by_y(Front(bs)), Last(bs))

RECURSIVE Texts(_)
Texts(bs) == IF bs = <<>> THEN <<>> ELSE <<bs[1].text>> \o Texts(Tail(bs))

detect_title(bs, lang) ==
    LET OnFirstPage(b) == b.page = 1 /\ b.text # <<>>
        first_page_blocks == SelectSeq(bs, OnFirstPage)
    IN  IF first_page_blocks = <<>> THEN <<>>
        ELSE LET max_size == MaxSize(first_page_blocks)
                 InBand(b) == DLess(AbsDiff(b.size, max_size), D0_5)
                 title_blocks == sorted_by_y(SelectSeq(first_page_blocks, InBand))
             IN  strip(clean_repetitions(join(Texts(title_blocks))))

(***************************************************************************)
(* process_pdfs.py: is_heading_candidate and extract_outline.              *)
(***************************************************************************)
MaxWords == 14
MaxChars == 80

\* "True", "False", or "Raise" when get_nlp lets an exception out
is_heading_candidate(block, lang, inst) ==
    IF \/ block.text = <<>>
       \/ starts_with_bullet(block.text)
       \/ ~is_short(block.text, MaxWords, MaxChars, lang)
    THEN "False"
    ELSE IF get_nlp_body(lang, inst).raised THEN "Raise"
    ELSE IF is_full_sentence(block.sents) THEN "False"
    ELSE IF \/ is_all_caps(block.text, lang)
            \/ is_title_case(block.text, lang)
            \/ RatioAboveHalf(uppercase_ratio(block.text, lang))
    THEN "True"
    ELSE "False"

HeadingEntry(block, lvl) ==
    [level |-> lvl, text |-> block.text, page |-> block.page - 1]

\* the loop of extract_outline from block i on, acc the outline so far
RECURSIVE OutlineLoop(_, _, _, _, _)
OutlineLoop(bs, i, acc, lang, inst) ==
    IF i > Len(bs) THEN [raised |-> FALSE, outline |-> acc]
    ELSE LET lvl == heading_level(bs[i], compute_font_stats)
         IN  IF lvl = "None" THEN OutlineLoop(bs, i + 1, acc, lang, inst)
             ELSE LET cand == is_heading_candidate(bs[i], lang, inst)
                  IN  IF cand = "Raise" THEN [raised |-> TRUE, outline |-> <<>>]
                      ELSE IF cand = "True"
                      THEN OutlineLoop(bs, i + 1, Append(acc, HeadingEntry(bs[i], lvl)),
                                       lang, inst)
                      ELSE OutlineLoop(bs, i + 1, acc, lang, inst)

extract_outline(bs, lang, inst) == OutlineLoop(bs, 1, <<>>, lang, inst)

(***************************************************************************)
(* detect_title applied to bounded span lists.                             *)
(***************************************************************************)
MaxTitleBlocks == 2

D23_5 == DSub(D24_0, D0_5)     \* 23.5, exactly 0.5 below 24.0

TitleBlocks ==
    [ text  : {<<>>, <<"A">>, <<"B">>},
      size  : {D24_0, D23_5, Shift(D23_5, Ulp(D23_5))},
      page  : {1, 2},
      y     : {0, 1},
      sents : {<<>>} ]

TitleInit ==
    /\ blocks \in UNION {[1..n -> TitleBlocks] : n \in 0..MaxTitleBlocks}
    /\ lang_code = "en"
    /\ installed = Models
    /\ title = <<>>
    /\ outline = <<>>

\* title = detect_title(blocks, lang_code=lang_code)
DetectTitle ==
    /\ pc = "start"
    /\ title' = detect_title(blocks, lang_code)
    /\ pc' = "titled"
    /\ UNCHANGED <<blocks, lang_code, installed, outline, textVars, levelVars,
                   cacheVars, batchVars>>

(***************************************************************************)
(* extract_outline applied to bounded span lists.                          *)
(***************************************************************************)
MaxOutlineBlocks == 2

Repeat(c, n) == [i \in 1..n |-> c]

\* n one-letter words separated by single spaces
Words(n) == [i \in 1..(2 * n - 1) |-> IF i % 2 = 1 THEN "A" ELSE " "]

Sentence(n, t) == <<[tokens |-> n, text |-> t]>>

Block(t, sz, p, ss) == [text |-> t, size |-> sz, page |-> p, y |-> 0, sents |-> ss]

OutlineBlocks ==
    {Block(t, D20_04, 1, <<>>) :
        t \in { <<>>, <<"A", "B">>, <<"A", "b">>, <<"a", "b">>, <<"-", "A">>,
                <<"A", " ", "A", "b", "b">>, <<"A", "B", "b", "b">>,
                Repeat("A", MaxChars), Repeat("A", MaxChars + 1),
                Words(MaxWords), Words(MaxWords + 1) }}
    \cup {Block(<<"A", "B">>, sz, 2, <<>>) : sz \in {D15_96, D12_0, D24_0}}
    \cup {Block(<<"A", "B", ".">>, D20_04, 1, ss) :
            ss \in { Sentence(3, <<"A", "B", ".", " ">>), Sentence(2, <<"A", "B", ".">>),
                     Sentence(3, <<"A", "B">>),
                     Sentence(2, <<"A">>) \o Sentence(3, <<"B", "!">>) }}

InstalledChoices == {Models, {LANG_MODELS["ja"]}, {}}

DetectedLangs == {"en", "ja", "fr"}

OutlineInit ==
    /\ blocks \in UNION {[1..n -> OutlineBlocks] : n \in 0..MaxOutlineBlocks}
    /\ lang_code \in DetectedLangs
    /\ installed \in InstalledChoices
    /\ title = <<>>
    /\ outline = <<>>

DocIdle ==
    /\ blocks = <<>>
    /\ lang_code = "en"
    /\ installed = Models
    /\ title = <<>>
    /\ outline = <<>>

\* outline = extract_outline(blocks, lang_code=lang_code), returning
ExtractOutline ==
    /\ pc = "start"
    /\ ~extract_outline(blocks, lang_code, installed).raised
    /\ outline' = extract_outline(blocks, lang_code, installed).outline
    /\ pc' = "outlined"
    /\ UNCHANGED <<blocks, lang_code, installed, title, textVars, levelVars,
                   cacheVars, batchVars>>

\* the same call when get_nlp lets the failed load out
ExtractOutlineRaises ==
    /\ pc = "start"
    /\ extract_outline(blocks, lang_code, installed).raised
    /\ pc' = "raised"
    /\ UNCHANGED <<docVars, installed, textVars, levelVars, cacheVars, batchVars>>

(***************************************************************************)
(* nlp.py: get_nlp behind @lru_cache(maxsize=3).  The cache is the         *)
(* sequence of its entries, least recently used first; its key is the      *)
(* argument of the call, the language code as given.                       *)
(***************************************************************************)
maxsize == 3

LangArgs == {"en", "es", "ja", "fr", "de", "it"}

CacheKeys == {cache[i].key : i \in 1..Len(cache)}

CacheIndex(lang) == CHOOSE i \in 1..Len(cache) : cache[i].key = lang

\* s without its i-th element
Without(s, i) == SubSeq(s, 1, i - 1) \o SubSeq(s, i + 1, Len(s))

\* a new entry goes in as the most recent; a full cache drops its oldest
CacheInsert(c, entry) ==
    IF Len(c) >= maxsize THEN Append(Tail(c), entry) ELSE Append(c, entry)

CacheInit ==
    /\ cache = <<>>
    /\ lang_arg = "none"
    /\ loaded = <<>>
    /\ engine = "none"
    /\ served = {}

CacheIdle == CacheInit

\* one call get_nlp(lang)
GetNlp(lang) ==
    /\ lang_arg' = lang
    /\ IF lang \in CacheKeys
       THEN LET i == CacheIndex(lang)
            IN  /\ engine' = cache[i].value
                /\ loaded' = <<>>
                /\ cache' = Append(Without(cache, i), cache[i])
                /\ served' = served \cup {lang}
       ELSE LET r == get_nlp_body(lang, installed)
            IN  /\ engine' = r.engine
                /\ loaded' = r.loads
                /\ cache' = IF r.raised THEN cache
                            ELSE CacheInsert(cache, [key |-> lang, value |-> r.engine])
                /\ served' = IF r.raised THEN served ELSE served \cup {lang}
    /\ UNCHANGED <<pc, installed, textVars, levelVars, docVars, batchVars>>

(***************************************************************************)
(* process_pdfs.py: process_pdfs and process_pdf, one step at a time.      *)
(***************************************************************************)
NumDocs == 2

Steps == {"extract", "language", "title", "outline"}

\* the documents extract_blocks_with_metadata may return
DocChoices ==
    { <<>>,
      <<Block(<<"A", "B">>, D24_0, 1, <<>>), Block(<<"A", "b">>, D20_04, 1, <<>>)>>,
      <<Block(<<"A", "B">>, D20_04, 2, <<>>)>> }

\* process_pdf with the result written before the outline is extracted
StepAfterWriteEarly(s) ==
    CASE s = "extract"  -> "language"
      [] s = "language" -> "title"
      [] s = "title"    -> "write"
      [] s = "write"    -> "outline"
      [] s = "outline"  -> "next"

\* the order of the statements of process_pdf
StepAfter(s) ==
    CASE s = "extract"  -> "language"
      [] s = "language" -> "title"
      [] s = "title"    -> "outline"
      [] s = "outline"  -> "write"
      [] s = "write"    -> "next"

BatchInit ==
    /\ pending = [i \in 1..NumDocs |-> i]
    /\ doc = 0
    /\ stage = "next"
    /\ done = {}
    /\ files = [d \in 1..NumDocs |-> <<>>]
    /\ failed = {}

BatchIdle ==
    /\ pending = <<>>
    /\ doc = 0
    /\ stage = "idle"
    /\ done = {}
    /\ files = <<>>
    /\ failed = {}

\* for pdf_file in pdf_files: the next file, whose call of process_pdf starts
\* with fresh locals, or the end of the loop
NextPdf ==
    /\ stage = "next"
    /\ IF pending = <<>>
       THEN /\ stage' = "completed"
            /\ UNCHANGED <<pending, doc, done, docVars>>
       ELSE /\ doc' = Head(pending)
            /\ pending' = Tail(pending)
            /\ done' = {}
            /\ stage' = "extract"
            /\ blocks' = <<>>
            /\ lang_code' = "en"
            /\ title' = <<>>
            /\ outline' = <<>>
    /\ UNCHANGED <<pc, installed, cacheVars, files, failed, textVars, levelVars>>

\* blocks = extract_blocks_with_metadata(pdf_path)
ExtractBlocks ==
    /\ stage = "extract"
    /\ blocks' \in DocChoices
    /\ done' = done \cup {"extract"}
    /\ stage' = StepAfter("extract")
    /\ UNCHANGED <<pc, lang_code, title, outline, installed, cacheVars, pending, doc,
                   files, failed, textVars, levelVars>>

\* fitz.open or get_text raises: the exception ends process_pdfs
ExtractFails ==
    /\ stage = "extract"
    /\ failed' = failed \cup {doc}
    /\ stage' = "aborted"
    /\ UNCHANGED <<pc, docVars, installed, cacheVars, pending, doc, done, files,
                   textVars, levelVars>>

\* lang_code = detect_language(blocks): the detected code, or 'en' when detect raises
DetectLanguage ==
    /\ stage = "language"
    /\ lang_code' \in DetectedLangs
    /\ done' = done \cup {"language"}
    /\ stage' = StepAfter("language")
    /\ UNCHANGED <<pc, blocks, title, outline, installed, cacheVars, pending, doc,
                   files, failed, textVars, levelVars>>

\* title = detect_title(blocks, lang_code=lang_code)
BatchTitle ==
    /\ stage = "title"
    /\ title' = detect_title(blocks, lang_code)
    /\ done' = done \cup {"title"}
    /\ stage' = StepAfter("title")
    /\ UNCHANGED <<pc, blocks, lang_code, outline, installed, cacheVars, pending, doc,
                   files, failed, textVars, levelVars>>

\* outline = extract_outline(blocks, lang_code=lang_code)
BatchOutline ==
    /\ stage = "outline"
    /\ LET r == extract_outline(blocks, lang_code, installed)
       IN  IF r.raised
           THEN /\ stage' = "aborted"
                /\ UNCHANGED <<outline, done>>
           ELSE /\ outline' = r.outline
                /\ done' = done \cup {"outline"}
                /\ stage' = StepAfter("outline")
    /\ UNCHANGED <<pc, blocks, lang_code, title, installed, cacheVars, pending, doc,
                   files, failed, textVars, levelVars>>

\* with open(output_json, "w") as f: json.dump(result, f); each write is logged
\* with the steps of the document completed before it
WriteResult ==
    /\ stage = "write"
    /\ files' = [files EXCEPT ![doc] =
                    Append(@, [result |-> [title |-> title, outline |-> outline,
                                           language |-> lang_code],
                               after  |-> done])]
    /\ stage' = StepAfter("write")
    /\ UNCHANGED <<pc, docVars, installed, cacheVars, pending, doc, done, failed,
                   textVars, levelVars>>

(***************************************************************************)
(* Specifications.                                                         *)
(***************************************************************************)
\* the string helpers on every bounded text
InitText ==
    /\ pc = "start"
    /\ TextInit
    /\ lang_code \in Langs
    /\ blocks = <<>>
    /\ installed = Models
    /\ title = <<>>
    /\ outline = <<>>
    /\ LevelIdle
    /\ CacheIdle
    /\ BatchIdle

NextText == CleanOnce \/ CleanAgain \/ TitleCase

SpecText == InitText /\ [][NextText]_vars

\* heading_level on every bounded size
InitLevel ==
    /\ pc = "start"
    /\ LevelInit
    /\ TextIdle
    /\ DocIdle
    /\ CacheIdle
    /\ BatchIdle

NextLevel == HeadingLevel

SpecLevel == InitLevel /\ [][NextLevel]_vars

\* detect_title on every bounded span list
InitTitle ==
    /\ pc = "start"
    /\ TitleInit
    /\ TextIdle
    /\ LevelIdle
    /\ CacheIdle
    /\ BatchIdle

NextTitle == DetectTitle

SpecTitle == InitTitle /\ [][NextTitle]_vars

\* extract_outline on every bounded span list, language and set of models
InitOutline ==
    /\ pc = "start"
    /\ OutlineInit
    /\ TextIdle
    /\ LevelIdle
    /\ CacheIdle
    /\ BatchIdle

NextOutline == ExtractOutline \/ ExtractOutlineRaises

SpecOutline == InitOutline /\ [][NextOutline]_vars

\* any sequence of get_nlp calls, on a machine with any set of models
InitCache ==
    /\ pc = "idle"
    /\ CacheInit
    /\ installed \in SUBSET Models
    /\ blocks = <<>>
    /\ lang_code = "en"
    /\ title = <<>>
    /\ outline = <<>>
    /\ TextIdle
    /\ LevelIdle
    /\ BatchIdle

NextCache == \E lang \in LangArgs : GetNlp(lang)

SpecCache == InitCache /\ [][NextCache]_vars

\* a batch run of process_pdfs
Init ==
    /\ pc = "idle"
    /\ BatchInit
    /\ installed \in InstalledChoices
    /\ blocks = <<>>
    /\ lang_code = "en"
    /\ title = <<>>
    /\ outline = <<>>
    /\ TextIdle
    /\ LevelIdle
    /\ CacheIdle

Next ==
    \/ NextPdf
    \/ ExtractBlocks
    \/ ExtractFails
    \/ DetectLanguage
    \/ BatchTitle
    \/ BatchOutline
    \/ WriteResult

Spec == Init /\ [][Next]_vars

(***************************************************************************)
(* Properties.                                                             *)
(***************************************************************************)
\* strict title case as the specification words it: at least one alphabetic
\* token, each with its first character uppercase and every remaining
\* character lowercase (none remaining for a one-letter token)
TitleCaseRule(t) ==
    LET words == SelectSeq(split(t), str_isalpha)
    IN  /\ words # <<>>
        /\ \A i \in 1..Len(words) :
              /\ isupper(words[i][1])
              /\ \A j \in 2..Len(words[i]) : islower(words[i][j])

AllCapsRule(t) ==
    /\ \E i \in 1..Len(t) : isalpha(t[i])
    /\ \A i \in 1..Len(t) : isalpha(t[i]) => isupper(t[i])

UpperCount(t)  == Cardinality({i \in 1..Len(t) : isupper(t[i])})
LetterCount(t) == Cardinality({i \in 1..Len(t) : isalpha(t[i])})

ShortRule(t, lang) ==
    /\ Len(t) <= 80
    /\ lang # "ja" => Len(split(t)) <= 14

\* the six conditions of the heading candidate engine
QualifiesAsHeading(b, lang) ==
    /\ b.text # <<>>
    /\ b.text[1] \notin bullets
    /\ ShortRule(b.text, lang)
    /\ ~is_full_sentence(b.sents)
    /\ lang # "ja"
    /\ \/ AllCapsRule(b.text)
       \/ TitleCaseRule(b.text)
       \/ 2 * UpperCount(b.text) > LetterCount(b.text)
    /\ heading_level(b, compute_font_stats) # "None"

\* the qualifying spans' entries, in span-list order
RECURSIVE QualifyingEntries(_, _)
QualifyingEntries(bs, lang) ==
    IF bs = <<>> THEN <<>>
    ELSE (IF QualifiesAsHeading(bs[1], lang)
          THEN <<[level |-> heading_level(bs[1], compute_font_stats),
                  text  |-> bs[1].text,
                  page  |-> bs[1].page - 1]>>
          ELSE <<>>) \o QualifyingEntries(Tail(bs), lang)

\* C1: extract_outline returns exactly one entry {level, text, page - 1} for
\* each span that is non-empty, starts with no bullet, is short, is not a full
\* sentence, is all-caps or strict title-case or mostly uppercase and has a font
\* level, in span-list order, with nothing deduplicated, merged or reordered.
C1_OutlineIsTheQualifyingSpans ==
    pc = "outlined" => outline = QualifyingEntries(blocks, lang_code)

\* C4: for a language with letter case, is_title_case is true iff the text has
\* an alphabetic token and every alphabetic token is an uppercase character
\* followed by lowercase characters only, a one-letter uppercase token included;
\* "I Am Here" is title case and "I AM HERE" is not.
C4_TitleCaseIsTheRule ==
    (pc = "cased" /\ lang_code \in CasedLangs) =>
        /\ titleCase = TitleCaseRule(text)
        /\ text = IAmHere => titleCase
        /\ text = IAMHERE => ~titleCase

\* the characters that occur three or more times in a row in t
RunsOfThree(t) ==
    {t[i] : i \in {j \in 1..(Len(t) - 2) : t[j] = t[j + 1] /\ t[j] = t[j + 2]}}

\* C5 as stated: the output of clean_repetitions has no run of three or more
\* identical consecutive characters, whatever the character.
C5_NoRunOfAnyCharacter ==
    pc \in {"cleaned", "recleaned"} => RunsOfThree(cleaned) = {}

\* C5: clean_repetitions collapses every run of three or more identical word
\* characters (letters, digits, underscore) to one, so its output has no run of
\* three or more identical word or whitespace characters; runs of punctuation
\* or symbols are not collapsed.
C5_NoRunOfWordCharacter ==
    pc \in {"cleaned", "recleaned"} =>
        /\ \A c \in RunsOfThree(cleaned) : ~isword(c) /\ ~isspace(c)
        /\ text = Reeeequest => cleaned = Request

\* a text with a run of three identical word characters has been cleaned
C5_Witness ==
    /\ pc = "cleaned"
    /\ \E c \in RunsOfThree(text) : isword(c)
    /\ cleaned # text

\* C6: clean_repetitions is idempotent: applied to its own output it returns
\* that output.
C6_CleanIsIdempotent ==
    pc = "recleaned" => recleaned = cleaned

\* a text that all three steps of clean_repetitions changed has been cleaned twice
C6_Witness ==
    /\ pc = "recleaned"
    /\ CollapseWordRuns(text) # text
    /\ CollapseSpaces(CollapseWordRuns(text)) # CollapseWordRuns(text)
    /\ Len(split(text)) > Len(split(cleaned))

\* the non-empty spans of page 1
FirstPage == {i \in 1..Len(blocks) : blocks[i].page = 1 /\ blocks[i].text # <<>>}

\* those of them less than 0.5 away from the largest size among them
TitleBand ==
    {i \in FirstPage :
        \E m \in FirstPage :
            /\ \A j \in FirstPage : DLeq(blocks[j].size, blocks[m].size)
            /\ DLess(AbsDiff(blocks[i].size, blocks[m].size), D0_5)}

\* the title band by ascending y, equal y in span-list order
TitleOrder ==
    CHOOSE idx \in [1..Cardinality(TitleBand) -> TitleBand] :
        \A j, k \in DOMAIN idx :
            j < k => \/ blocks[idx[j]].y < blocks[idx[k]].y
                     \/ blocks[idx[j]].y = blocks[idx[k]].y /\ idx[j] < idx[k]

\* C2: detect_title returns the empty string when page 1 has no non-empty
\* span; otherwise the cleaned, trimmed single-space join of the texts of
\* exactly the non-empty page-1 spans whose size is less than 0.5 from the
\* page-1 maximum, by ascending origin.y, equal origin.y in span-list order.
C2_TitleIsTheCleanedBand ==
    pc = "titled" =>
        title = IF FirstPage = {} THEN <<>>
                ELSE strip(clean_repetitions(
                        join([j \in DOMAIN TitleOrder |-> blocks[TitleOrder[j]].text])))

\* two spans of the band at the same height, with different texts, and a title
C2_Witness ==
    /\ pc = "titled"
    /\ Cardinality(TitleBand) = 2
    /\ blocks[1].y = blocks[2].y
    /\ blocks[1].text # blocks[2].text
    /\ Len(title) = 3

\* the first of H1, H2, H3 whose table size is within 0.1 of sz
LevelRule(sz) ==
    IF DLeq(AbsDiff(sz, D20_04), D0_1) THEN "H1"
    ELSE IF DLeq(AbsDiff(sz, D15_96), D0_1) THEN "H2"
    ELSE IF DLeq(AbsDiff(sz, D12_0), D0_1) THEN "H3"
    ELSE "None"

\* C3: heading_level returns the first of H1 (20.04), H2 (15.96), H3 (12.0)
\* whose table size is within 0.1 of the span's size, |size - table| <= 0.1,
\* and no level when none is; 20.09 gives H1 and 20.2 gives no level.
C3_LevelIsFirstWithinTolerance ==
    pc = "levelled" =>
        /\ level = LevelRule(size)
        /\ size = D20_09 => level = "H1"
        /\ size = D20_2 => level = "None"

\* the largest double within 0.1 of 20.04 has been classified, and is H1
C3_Witness ==
    /\ pc = "levelled"
    /\ size = GridDown(DAdd(D20_04, D0_1))
    /\ level = "H1"

\* C7: get_nlp never lets an engine-load failure out: whichever loads fail, it
\* returns an engine.
C7_GetNlpNeverRaises == engine # "raised"

\* C8: the cache never evicts: once a call for a code has returned an engine,
\* a later call for that code loads nothing, and the keys of the cache stay
\* within the supported languages, at most three.
C8_CacheIsPureMemo ==
    [][ /\ lang_arg' \in served => loaded' = <<>>
        /\ {cache'[i].key : i \in 1..Len(cache')} \subseteq DOMAIN LANG_MODELS
        /\ Len(cache') <= 3 ]_vars

\* C9: a document's result file is written at most once, and only after its
\* span extraction, language resolution, title detection and outline
\* classification have completed; a document whose extraction failed has no
\* result file.
C9_WrittenOnceAfterAllSteps ==
    \A d \in DOMAIN files :
        /\ Len(files[d]) <= 1
        /\ \A k \in 1..Len(files[d]) : files[d][k].after = Steps
        /\ d \in failed => files[d] = <<>>

\* one document's result is written and a later document's extraction failed
C9_Witness ==
    /\ stage = "aborted"
    /\ failed # {}
    /\ \E d \in DOMAIN files : files[d] # <<>>

\* C10: with language code 'ja' is_all_caps and is_title_case are false and
\* uppercase_ratio is 0 for every text, and extract_outline returns an empty
\* outline for every span list.
C10_JapaneseOutlineIsEmpty ==
    lang_code = "ja" =>
        /\ pc = "outlined" => outline = <<>>
        /\ \A i \in 1..Len(blocks) :
              /\ ~is_all_caps(blocks[i].text, lang_code)
              /\ ~is_title_case(blocks[i].text, lang_code)
              /\ uppercase_ratio(blocks[i].text, lang_code) = <<0, 1>>

\* an outline was extracted for 'ja' from a span that is a heading under 'en'
C10_Witness ==
    /\ pc = "outlined"
    /\ lang_code = "ja"
    /\ \E i \in 1..Len(blocks) :
          /\ heading_level(blocks[i], compute_font_stats) # "None"
          /\ is_heading_candidate(blocks[i], "en", Models) = "True"

====
